---- MODULE Spec2Model ----
(***************************************************************************)
(* qrseq: a byte buffer is split into numbered chunks (CreateChunks), each *)
(* chunk travels as one QR image, and a QRSequence created by NewEmpty     *)
(* absorbs the decoded chunks in any order until it is complete.           *)
(*                                                                         *)
(* Bytes are integers 0..255, a []byte that may be nil is the record       *)
(* [isNil, b].  A QR image is modelled by what the decoder extracts from   *)
(* it: [readable, bytes]; the QR symbol and the base64 text are produced   *)
(* and consumed by external libraries and carry exactly these bytes.       *)
(* A Go panic is the outcome "panic" of a call; the fields written before  *)
(* the panicking statement keep their new values.                          *)
(***************************************************************************)
EXTENDS Integers, Sequences, FiniteSets, TLC

VARIABLES
    data,       \* the buffer handed to the producer (main.go: inputData)
    frameSize,  \* the chunk size handed to the producer
    images,     \* the producer's QR images, as the frame bytes each carries
    s,          \* the QRSequence under observation
    call,       \* the last call made on s and what it returned
    supplied,   \* while alien is FALSE: indices of the producer's images shown to s,
                \* in order of first show
    alien,      \* TRUE once s was given an input that is none of the producer's images
    thr         \* the capture threads running addChunk (SpecRace)

vars == <<data, frameSize, images, s, call, supplied, alien, thr>>

----------------------------------------------------------------------------
(* Bounds of the model *)

\* data lengths are q*cap + r with q in 0..MaxFull, so splits have up to MaxFull+1 chunks
MaxFull == 2
\* how many members of the chunk size enumeration the producer draws from
NumSizes == 2
\* number of concurrent capture threads in SpecRace
NumThreads == 2
\* how many full chunks beyond 255 the long buffers of SpecSplit reach
MaxOver == 1

----------------------------------------------------------------------------
(* internal/imgwriter.go: chunk sizes, chunks, the frame codec *)

ChunkSizeUnknown == 0
ChunkSize32 == 32
ChunkSize64 == 64
ChunkSize128 == 128
ChunkSize256 == 256
ChunkSize512 == 512
ChunkSize1024 == 1024

ChunkSizes == <<ChunkSize32, ChunkSize64, ChunkSize128, ChunkSize256, ChunkSize512, ChunkSize1024>>

\* isValidChunkSize as a range test instead of the enumeration
isValidChunkSize_range(cs) == cs >= ChunkSize32 /\ cs <= ChunkSize1024

isValidChunkSize(cs) ==
    cs \in {ChunkSize32, ChunkSize64, ChunkSize128, ChunkSize256, ChunkSize512, ChunkSize1024}

\* uint8(x) and uint16(x) conversions of a non-negative int
Uint8(x) == x % 256
Uint16(x) == x % 65536

\* a *QRChunk; NoChunk is the nil pointer
QRChunk(nr, tot, cs, d) == [nr |-> nr, tot |-> tot, cs |-> cs, data |-> d]
NoChunk == [nr |-> -1, tot |-> -1, cs |-> 0, data |-> <<>>]

\* a []byte value: nil, or a (possibly empty) slice
NilSlice == [isNil |-> TRUE, b |-> <<>>]
Slice(b) == [isNil |-> FALSE, b |-> b]

\* NewChunk(data) for the slice with the bytes b and, behind its length, the
\* bytes spare of its backing array (cap(data) = Len(b) + Len(spare)): status
\* "ok" with the chunk, "nil" for an invalid chunk size, "panic" for an index
\* or slice expression out of range. data[0] and data[1] are checked against
\* the length, data[2:4] against the capacity, so that a slice of 2 or 3 bytes
\* with capacity 4 or more has its size field read from behind its length;
\* data[4:] then is checked against the length again.
NewChunk(b, spare) ==
    IF Len(b) < 2 \/ Len(b) + Len(spare) < 4
    THEN [status |-> "panic", chunk |-> NoChunk]
    ELSE LET arr == b \o spare
             nr == Uint8(arr[1])
             tot == Uint8(arr[2])
             cs == arr[3] + 256 * arr[4]
         IN  IF ~isValidChunkSize(cs)
             THEN [status |-> "nil", chunk |-> NoChunk]
             ELSE IF Len(b) < 4
             THEN [status |-> "panic", chunk |-> NoChunk]
             ELSE [status |-> "ok",
                   chunk |-> QRChunk(nr, tot, cs,
                                IF Len(b) > cs THEN SubSeq(b, 5, cs)
                                               ELSE SubSeq(b, 5, Len(b)))]

\* an image, as the decoder sees it: the bytes base64.DecodeString returns for
\* its text, and the spare bytes of the buffer it allocated for them (zeros,
\* more of them when the text has line breaks)
Image(b, spare) == [readable |-> TRUE, bytes |-> b, spare |-> spare]
Unreadable == [readable |-> FALSE, bytes |-> <<>>, spare |-> <<>>]

\* NewChunkFromImage also rejecting a frame shorter than its chunk size
NewChunkFromImage_strictLen(img) ==
    IF ~img.readable THEN [status |-> "error", chunk |-> NoChunk]
    ELSE LET r == NewChunk(img.bytes, img.spare)
         IN  IF r.status = "ok" /\ Len(img.bytes) = r.chunk.cs THEN r
             ELSE IF r.status = "panic" THEN r
             ELSE [status |-> "error", chunk |-> NoChunk]

\* NewChunkFromImage(img): "error" when the image or its text cannot be decoded
\* or NewChunk returns nil
NewChunkFromImage(img) ==
    IF ~img.readable
    THEN [status |-> "error", chunk |-> NoChunk]
    ELSE LET r == NewChunk(img.bytes, img.spare)
         IN  IF r.status = "nil" THEN [status |-> "error", chunk |-> NoChunk] ELSE r

\* number of chunks CreateChunks computes before narrowing it to 8 bits
NumChunks(d, chunkSize) ==
    LET ds == Uint16(chunkSize - 4)
    IN  (Len(d) \div ds) + (IF Len(d) % ds # 0 THEN 1 ELSE 0)

\* CreateChunks with the remainder chunk forgotten (tot never rounded up)
CreateChunks_noRemainder(d, chunkSize) ==
    LET ds == Uint16(chunkSize - 4)
        tot == Len(d) \div ds
    IN  [k \in 1..tot |->
            QRChunk(Uint8(k - 1), Uint8(tot), chunkSize,
                    SubSeq(d, (k - 1) * ds + 1, k * ds))]

\* CreateChunks numbering the chunks from 1
CreateChunks_oneBased(d, chunkSize) ==
    LET ds == Uint16(chunkSize - 4)
        tot == NumChunks(d, chunkSize)
    IN  [k \in 1..tot |->
            LET st == (k - 1) * ds
                e == st + ds
            IN  QRChunk(Uint8(k), Uint8(tot), chunkSize,
                        IF e > Len(d) THEN SubSeq(d, st + 1, Len(d))
                                      ELSE SubSeq(d, st + 1, e))]

CreateChunks(d, chunkSize) ==
    LET ds == Uint16(chunkSize - 4)
        tot == NumChunks(d, chunkSize)
    IN  [k \in 1..tot |->
            LET i == k - 1
                st == i * ds
                e == st + ds
            IN  QRChunk(Uint8(i), Uint8(tot), chunkSize,
                        IF e > Len(d) THEN SubSeq(d, st + 1, Len(d))
                                      ELSE SubSeq(d, st + 1, e))]

RECURSIVE Concat(_, _, _)
\* the payloads of chunks[lo..hi] appended in index order (halving keeps the
\* evaluation shallow for 255 and more chunks)
Concat(chunks, lo, hi) ==
    IF lo > hi THEN <<>>
    ELSE IF lo = hi THEN chunks[lo].data
    ELSE LET mid == (lo + hi) \div 2
         IN  Concat(chunks, lo, mid) \o Concat(chunks, mid + 1, hi)

GetData(chunks) ==
    IF Len(chunks) = 0 THEN NilSlice ELSE Slice(Concat(chunks, 1, Len(chunks)))

\* the bytes QRChunk.QRCode hands (base64-encoded) to the QR encoder
\* QRCode writing the chunk size with the high byte first
QRCode_bigEndian(c) == <<c.nr, c.tot, c.cs \div 256, c.cs % 256>> \o c.data

QRCode(c) == <<c.nr, c.tot, c.cs % 256, c.cs \div 256>> \o c.data

----------------------------------------------------------------------------
(* qrseq.go: the sequence *)

QRSequence(cs, chunks, n) == [ChunkSize |-> cs, chunks |-> chunks, nrReceived |-> n]

\* New leaving nrReceived at zero
New_noCount(d, chunkSize) ==
    QRSequence(chunkSize, CreateChunks(d, chunkSize), 0)

New(d, chunkSize) ==
    LET chunks == CreateChunks(d, chunkSize)
    IN  QRSequence(chunkSize, chunks, Len(chunks))

NewEmpty == QRSequence(ChunkSizeUnknown, <<>>, 0)

IsComplete(q) ==
    IF q.ChunkSize = ChunkSizeUnknown THEN FALSE
    ELSE q.nrReceived = Len(q.chunks)

\* Progress without the test for an unknown chunk size
Progress_noUnknown(q) ==
    IF q.nrReceived = Len(q.chunks) THEN <<1, 1>>
    ELSE <<q.nrReceived, Len(q.chunks)>>

\* Progress as the exact fraction <<numerator, denominator>>; float32 represents
\* the counts exactly and its division is monotone, 0 is <<0, 1>> and 1 is <<1, 1>>
Progress(q) ==
    IF q.ChunkSize = ChunkSizeUnknown THEN <<0, 1>>
    ELSE IF q.nrReceived = Len(q.chunks) THEN <<1, 1>>
    ELSE <<q.nrReceived, Len(q.chunks)>>

\* Data without the test for completeness
Data_noCheck(q) == GetData(q.chunks)

Data(q) == IF ~IsComplete(q) THEN NilSlice ELSE GetData(q.chunks)

\* QRCodes(blockSize): an error unless complete, else one image per chunk
\* (for a blockSize >= 1 and frames the QR encoder accepts)
QRCodes(q) ==
    IF ~IsComplete(q)
    THEN [err |-> TRUE, imgs |-> <<>>]
    ELSE [err |-> FALSE, imgs |-> [k \in 1..Len(q.chunks) |-> QRCode(q.chunks[k])]]

\* addChunk storing and counting the chunk whether or not its slot is filled
addChunk_overwrite(q, chunk) ==
    LET q1 == IF q.ChunkSize = ChunkSizeUnknown
              THEN QRSequence(chunk.cs, [k \in 1..chunk.tot |-> NoChunk], 0)
              ELSE q
    IN  IF chunk.nr >= Len(q1.chunks)
        THEN [s |-> q1, out |-> "panic"]
        ELSE [s |-> QRSequence(q1.ChunkSize,
                               [q1.chunks EXCEPT ![chunk.nr + 1] = chunk],
                               q1.nrReceived + 1),
              out |-> "ok"]

\* addChunk storing the chunk in the next free slot, in order of arrival
addChunk_append(q, chunk) ==
    LET q1 == IF q.ChunkSize = ChunkSizeUnknown
              THEN QRSequence(chunk.cs, [k \in 1..chunk.tot |-> NoChunk], 0)
              ELSE q
    IN  IF q1.nrReceived >= Len(q1.chunks)
        THEN [s |-> q1, out |-> "panic"]
        ELSE [s |-> QRSequence(q1.ChunkSize,
                               [q1.chunks EXCEPT ![q1.nrReceived + 1] = chunk],
                               q1.nrReceived + 1),
              out |-> "ok"]

\* addChunk filling the slot without counting it
addChunk_noCount(q, chunk) ==
    LET q1 == IF q.ChunkSize = ChunkSizeUnknown
              THEN QRSequence(chunk.cs, [k \in 1..chunk.tot |-> NoChunk], 0)
              ELSE q
    IN  IF chunk.nr >= Len(q1.chunks)
        THEN [s |-> q1, out |-> "panic"]
        ELSE IF q1.chunks[chunk.nr + 1] = NoChunk
        THEN [s |-> QRSequence(q1.ChunkSize,
                               [q1.chunks EXCEPT ![chunk.nr + 1] = chunk],
                               q1.nrReceived),
              out |-> "ok"]
        ELSE [s |-> q1, out |-> "ok"]

\* addChunk taking chunk size and slots from every chunk, not only the first
addChunk_reinit(q, chunk) ==
    LET q1 == QRSequence(chunk.cs, [k \in 1..chunk.tot |-> NoChunk], 0)
    IN  IF chunk.nr >= Len(q1.chunks)
        THEN [s |-> q1, out |-> "panic"]
        ELSE [s |-> QRSequence(q1.ChunkSize,
                               [q1.chunks EXCEPT ![chunk.nr + 1] = chunk],
                               q1.nrReceived + 1),
              out |-> "ok"]

\* addChunk(chunk): the sequence after the call and whether it panicked on the
\* slot index.  The lazy initialisation is kept when the index then panics.
addChunk(q, chunk) ==
    LET q1 == IF q.ChunkSize = ChunkSizeUnknown
              THEN QRSequence(chunk.cs, [k \in 1..chunk.tot |-> NoChunk], 0)
              ELSE q
    IN  IF chunk.nr >= Len(q1.chunks)
        THEN [s |-> q1, out |-> "panic"]
        ELSE IF q1.chunks[chunk.nr + 1] = NoChunk
        THEN [s |-> QRSequence(q1.ChunkSize,
                               [q1.chunks EXCEPT ![chunk.nr + 1] = chunk],
                               q1.nrReceived + 1),
              out |-> "ok"]
        ELSE [s |-> q1, out |-> "ok"]

\* DecodeImage(img): returns nil ("ok") or the decoder's error
DecodeImageRes(q, img) ==
    IF IsComplete(q) THEN [s |-> q, out |-> "ok"]
    ELSE LET r == NewChunkFromImage(img)
         IN  IF r.status = "ok" THEN addChunk(q, r.chunk)
             ELSE [s |-> q, out |-> r.status]

\* AddChunkFromBytes without the early return on a complete sequence
AddChunkFromBytesRes_noGuard(q, b, spare) ==
    LET r == NewChunk(b, spare)
    IN  IF r.status = "ok" THEN addChunk(q, r.chunk)
        ELSE IF r.status = "nil" THEN [s |-> q, out |-> "ok"]
        ELSE [s |-> q, out |-> "panic"]

\* AddChunkFromBytes(data): returns nothing; a nil chunk is dropped
AddChunkFromBytesRes(q, b, spare) ==
    IF IsComplete(q) THEN [s |-> q, out |-> "ok"]
    ELSE LET r == NewChunk(b, spare)
         IN  IF r.status = "ok" THEN addChunk(q, r.chunk)
             ELSE IF r.status = "nil" THEN [s |-> q, out |-> "ok"]
             ELSE [s |-> q, out |-> "panic"]

----------------------------------------------------------------------------
(* Inputs *)

\* deterministic buffer contents of length n; neighbouring chunks differ
Buffer(n) == [i \in 1..n |-> (37 * i + 11) % 256]

\* the buffer lengths tried for a chunk size: around every multiple of the payload capacity
Lengths(chunkSize) ==
    LET cap == chunkSize - 4
    IN  {q * cap + r : q \in 0..MaxFull, r \in {0, 1, cap - 1}}

ProducerSizes == {ChunkSizes[i] : i \in 1..NumSizes}

\* frames that no producer of this run made: total 0, another total, another
\* chunk size, an invalid chunk size, an index beyond the total, buffers of
\* fewer than 4 bytes, and a frame with the header of a 2-chunk split but
\* another payload
ForeignFrames ==
    { <<0, 0, 32, 0>>,
      <<1, 5, 32, 0, 201>>,
      <<0, 2, 64, 0, 202>>,
      <<0, 1, 100, 0, 203>>,
      <<5, 2, 32, 0, 204>>,
      <<>>,
      <<7>>,
      <<1, 2>>,
      <<1, 2, 32>>,
      <<0, 2, 32, 0, 205, 206>> }

OwnFrames == {images[k] : k \in 1..Len(images)}

Inputs == OwnFrames \cup ForeignFrames

\* the bytes behind the length of an input slice, as far as NewChunk can read
\* them: none (capacity equal to length), one or two, zero or not, and two
\* that spell a valid chunk size; behind 4 bytes or more nothing is read
Spare(b) ==
    IF Len(b) >= 4 THEN {<<>>}
    ELSE {<<>>, <<0>>, <<1>>, <<0, 0>>, <<32, 0>>}

\* the spare bytes of the buffer DecodeString allocates are zero
ZeroSpare(b) == {spare \in Spare(b) : \A i \in 1..Len(spare) : spare[i] = 0}

\* what showing frame bytes b to the sequence does to the record of supplied images
Supply(b) ==
    IF alien
    THEN UNCHANGED <<supplied, alien>>
    ELSE IF b \in OwnFrames
    THEN LET k == CHOOSE j \in 1..Len(images) : images[j] = b
         IN  /\ supplied' = IF \E j \in 1..Len(supplied) : supplied[j] = k - 1
                            THEN supplied ELSE Append(supplied, k - 1)
             /\ alien' = FALSE
    ELSE /\ supplied' = <<>>
         /\ alien' = TRUE

NoCall == [op |-> "none", arg |-> <<>>, spare |-> <<>>, out |-> "ok", ret |-> NilSlice]
Idle == [t \in 1..NumThreads |-> [pc |-> "idle", img |-> 0, chunk |-> NoChunk, tmp |-> 0]]

----------------------------------------------------------------------------
(* The receiver: main.go's sender and capture loop, with any input *)

Init ==
    /\ frameSize \in ProducerSizes
    /\ data \in {Buffer(n) : n \in Lengths(frameSize)}
    /\ images = QRCodes(New(data, frameSize)).imgs
    /\ s = NewEmpty
    /\ call = NoCall
    /\ supplied = <<>>
    /\ alien = FALSE
    /\ thr = Idle

DecodeImage(b, spare) ==
    LET r == DecodeImageRes(s, Image(b, spare))
    IN  /\ s' = r.s
        /\ call' = [op |-> "DecodeImage", arg |-> b, spare |-> spare, out |-> r.out, ret |-> NilSlice]
        /\ Supply(b)
        /\ UNCHANGED <<data, frameSize, images, thr>>

DecodeUnreadable ==
    LET r == DecodeImageRes(s, Unreadable)
    IN  /\ s' = r.s
        /\ call' = [op |-> "DecodeUnreadable", arg |-> <<>>, spare |-> <<>>, out |-> r.out, ret |-> NilSlice]
        /\ alien' = TRUE
        /\ supplied' = <<>>
        /\ UNCHANGED <<data, frameSize, images, thr>>

AddChunkFromBytes(b, spare) ==
    LET r == AddChunkFromBytesRes(s, b, spare)
    IN  /\ s' = r.s
        /\ call' = [op |-> "AddChunkFromBytes", arg |-> b, spare |-> spare, out |-> r.out, ret |-> NilSlice]
        /\ Supply(b)
        /\ UNCHANGED <<data, frameSize, images, thr>>

CallData ==
    /\ call' = [op |-> "Data", arg |-> <<>>, spare |-> <<>>, out |-> "ok", ret |-> Data(s)]
    /\ UNCHANGED <<data, frameSize, images, s, supplied, alien, thr>>

CallQRCodes ==
    /\ call' = [op |-> "QRCodes", arg |-> <<>>, spare |-> <<>>,
                out |-> IF QRCodes(s).err THEN "error" ELSE "ok", ret |-> NilSlice]
    /\ UNCHANGED <<data, frameSize, images, s, supplied, alien, thr>>

Next ==
    \/ \E b \in Inputs : \E spare \in ZeroSpare(b) : DecodeImage(b, spare)
    \/ DecodeUnreadable
    \/ \E b \in Inputs : \E spare \in Spare(b) : AddChunkFromBytes(b, spare)
    \/ CallData
    \/ CallQRCodes

Spec == Init /\ [][Next]_vars

----------------------------------------------------------------------------
(* The producer: New(data, chunkSize) on buffers up to and beyond 255 chunks *)

\* the largest value of the 8-bit fields nr and tot
MaxUint8 == 255

\* buffer lengths around the 255-chunk ceiling of a chunk size
LongLengths(chunkSize) ==
    LET cap == chunkSize - 4
    IN  {q * cap + r : q \in (MaxUint8 - 1)..(MaxUint8 + MaxOver), r \in {0, 1}}

InitSplit ==
    /\ frameSize \in ProducerSizes
    /\ data \in {Buffer(n) : n \in Lengths(frameSize) \cup LongLengths(frameSize)}
    /\ images = <<>>
    /\ s = NewEmpty
    /\ call = NoCall
    /\ supplied = <<>>
    /\ alien = FALSE
    /\ thr = Idle

\* seq := qrseq.New(data, chunkSize); New has no error result
CallNew ==
    /\ s' = New(data, frameSize)
    /\ call' = [op |-> "New", arg |-> <<>>, spare |-> <<>>, out |-> "ok", ret |-> NilSlice]
    /\ UNCHANGED <<data, frameSize, images, supplied, alien, thr>>

\* images, err := seq.QRCodes(blockSize), kept when there is no error
Produce ==
    /\ ~QRCodes(s).err
    /\ images' = QRCodes(s).imgs
    /\ call' = [op |-> "QRCodes", arg |-> <<>>, spare |-> <<>>, out |-> "ok", ret |-> NilSlice]
    /\ UNCHANGED <<data, frameSize, s, supplied, alien, thr>>

\* frames of every chunk size, with the extreme indices and totals and an
\* empty, a one-byte and a full payload
CarrierFrames ==
    UNION {{QRChunk(nr, tot, ChunkSizes[i], Buffer(n)) :
                nr \in {0, MaxUint8}, tot \in {0, MaxUint8},
                n \in {0, 1, ChunkSizes[i] - 4}} : i \in 1..Len(ChunkSizes)}

\* chunk.QRCode(blockSize) shown to NewChunkFromImage: the bytes in the symbol
\* and what the decoder makes of them
Carry(F) ==
    LET r == NewChunkFromImage(Image(QRCode(F), <<>>))
    IN  /\ call' = [op |-> "Carry", arg |-> QRCode(F), spare |-> <<>>, out |-> r.status,
                    ret |-> Slice(r.chunk.data)]
        /\ UNCHANGED <<data, frameSize, images, s, supplied, alien, thr>>

NextSplit ==
    \/ CallNew
    \/ Produce
    \/ CallData
    \/ CallQRCodes

SpecSplit == InitSplit /\ [][NextSplit]_vars

\* The capture loop of the example: while the receiver is not complete, one of
\* the producer's images, chosen at random, is decoded; then the data is read.
Capture(k) ==
    /\ k \in 1..Len(images)
    /\ ~IsComplete(s)
    /\ DecodeImage(images[k], <<>>)

NextLoop ==
    \/ \E k \in 1..Len(images) : Capture(k)
    \/ (IsComplete(s) /\ CallData)

\* rand.Intn draws every index again and again, so an image that would change
\* the sequence is not passed over forever
SpecLoop ==
    /\ Init
    /\ [][NextLoop]_vars
    /\ \A k \in 1..(MaxFull + 1) : WF_vars(Capture(k))

\* the carrier alone: any of these frames, or a frame of the producer's
\* split, is serialized and decoded
NextCarrier ==
    \E F \in CarrierFrames \cup {CreateChunks(data, frameSize)[k] : k \in 1..Len(images)} :
        Carry(F)

SpecCarrier == Init /\ [][NextCarrier]_vars

----------------------------------------------------------------------------
(* Capture threads calling DecodeImage on one sequence without a lock.      *)
(* Each statement of addChunk is one step; the race on the fields of s is   *)
(* every interleaving of these steps.                                       *)

Threads == 1..NumThreads

Goto(t, pc) == thr' = [thr EXCEPT ![t].pc = pc]

\* DecodeImage(images[k]): the completeness test, then the decoded chunk in hand
RaceBegin(t, k) ==
    /\ thr[t].pc = "idle"
    /\ IF IsComplete(s)
       THEN thr' = [thr EXCEPT ![t].pc = "done", ![t].img = k]
       ELSE thr' = [thr EXCEPT ![t].pc = "l196", ![t].img = k,
                               ![t].chunk = NewChunkFromImage(Image(images[k], <<>>)).chunk]
    /\ UNCHANGED <<data, frameSize, images, s, call, supplied, alien>>

\* if s.ChunkSize == ChunkSizeUnknown
RaceL196(t) ==
    /\ thr[t].pc = "l196"
    /\ Goto(t, IF s.ChunkSize = ChunkSizeUnknown THEN "l197" ELSE "l202")
    /\ UNCHANGED <<data, frameSize, images, s, call, supplied, alien>>

\* s.ChunkSize = ChunkSize(chunk.Size())
RaceL197(t) ==
    /\ thr[t].pc = "l197"
    /\ s' = [s EXCEPT !.ChunkSize = thr[t].chunk.cs]
    /\ Goto(t, "l198")
    /\ UNCHANGED <<data, frameSize, images, call, supplied, alien>>

\* s.chunks = make([]*internal.QRChunk, chunk.Tot())
RaceL198(t) ==
    /\ thr[t].pc = "l198"
    /\ s' = [s EXCEPT !.chunks = [k \in 1..thr[t].chunk.tot |-> NoChunk]]
    /\ Goto(t, "l199")
    /\ UNCHANGED <<data, frameSize, images, call, supplied, alien>>

\* s.nrReceived = 0
RaceL199(t) ==
    /\ thr[t].pc = "l199"
    /\ s' = [s EXCEPT !.nrReceived = 0]
    /\ Goto(t, "l202")
    /\ UNCHANGED <<data, frameSize, images, call, supplied, alien>>

\* if s.chunks[chunk.Nr()] == nil
RaceL202(t) ==
    /\ thr[t].pc = "l202"
    /\ Goto(t, IF thr[t].chunk.nr >= Len(s.chunks) THEN "panic"
               ELSE IF s.chunks[thr[t].chunk.nr + 1] = NoChunk THEN "l203"
               ELSE "done")
    /\ UNCHANGED <<data, frameSize, images, s, call, supplied, alien>>

\* s.chunks[chunk.Nr()] = chunk
RaceL203(t) ==
    /\ thr[t].pc = "l203"
    /\ IF thr[t].chunk.nr >= Len(s.chunks)
       THEN /\ Goto(t, "panic")
            /\ s' = s
       ELSE /\ s' = [s EXCEPT !.chunks[thr[t].chunk.nr + 1] = thr[t].chunk]
            /\ Goto(t, "l204")
    /\ UNCHANGED <<data, frameSize, images, call, supplied, alien>>

\* s.nrReceived++ : the load of the counter
RaceL204Load(t) ==
    /\ thr[t].pc = "l204"
    /\ thr' = [thr EXCEPT ![t].pc = "l204store", ![t].tmp = s.nrReceived]
    /\ UNCHANGED <<data, frameSize, images, s, call, supplied, alien>>

\* s.nrReceived++ : the store of the value loaded plus one
RaceL204Store(t) ==
    /\ thr[t].pc = "l204store"
    /\ s' = [s EXCEPT !.nrReceived = thr[t].tmp + 1]
    /\ thr' = [thr EXCEPT ![t].pc = "done", ![t].tmp = 0]
    /\ UNCHANGED <<data, frameSize, images, call, supplied, alien>>

NextRace ==
    \E t \in Threads :
        \/ \E k \in 1..Len(images) : RaceBegin(t, k)
        \/ RaceL196(t)
        \/ RaceL197(t)
        \/ RaceL198(t)
        \/ RaceL199(t)
        \/ RaceL202(t)
        \/ RaceL203(t)
        \/ RaceL204Load(t)
        \/ RaceL204Store(t)

SpecRace == Init /\ [][NextRace]_vars

----------------------------------------------------------------------------
(* Vocabulary of the properties *)

AbsorbOps == {"DecodeImage", "AddChunkFromBytes"}

\* the states of the assembler
IsEmpty(q) == q.ChunkSize = ChunkSizeUnknown
IsPartial(q) == q.ChunkSize # ChunkSizeUnknown /\ q.nrReceived # Len(q.chunks)

\* every image of the producer has been shown to s, and nothing else has
OnlyOwnAllSupplied == ~alien /\ Len(supplied) = Len(images)

\* fractions <<a, b>> <= <<c, d>>, and the fractions 0 and 1
FracLE(p, q) == p[1] * q[2] <= q[1] * p[2]
IsZero(p) == p[1] = 0
IsOne(p) == p[1] = p[2]

RECURSIVE AbsorbInOrder(_)
\* the sequence after DecodeImage of images[1], ..., images[k] into NewEmpty, in index order
AbsorbInOrder(k) ==
    IF k = 0 THEN NewEmpty
    ELSE DecodeImageRes(AbsorbInOrder(k - 1), Image(images[k], <<>>)).s

\* the chunk a frame decodes to (NoChunk when it does not decode)
Decoded(b) == NewChunk(b, <<>>).chunk
Decodes(b) == NewChunk(b, <<>>).status = "ok"

----------------------------------------------------------------------------
(* C1: round trip *)

\* C1 as stated: for every buffer, the empty one included, once every frame of
\* the split has been absorbed into a sequence made by NewEmpty, Data() returns
\* exactly the buffer.
C1_RoundTripAnyBuffer ==
    (OnlyOwnAllSupplied /\ call.op = "Data") => call.ret = Slice(data)

\* C1 amended: the round trip holds for every non-empty buffer; the empty buffer
\* splits into no frames, the sequence stays empty and Data() returns nil.
C1_RoundTrip ==
    (OnlyOwnAllSupplied /\ call.op = "Data") =>
        IF Len(data) > 0 THEN call.ret = Slice(data)
        ELSE call.ret = NilSlice /\ ~IsComplete(s)

C1_Witness ==
    /\ OnlyOwnAllSupplied
    /\ Len(images) = MaxFull + 1
    /\ call.op = "Data"
    /\ call.ret = Slice(data)

----------------------------------------------------------------------------
(* C2: order independence *)

\* C2: whatever the order in which the frames of one non-empty split are
\* absorbed, the sequence ends in the Complete state that absorbing them in
\* index order gives (same ChunkSize, slots and nrReceived) and Data() is the
\* same buffer.
C2_OrderIndependence ==
    (OnlyOwnAllSupplied /\ Len(images) > 0) =>
        /\ s = AbsorbInOrder(Len(images))
        /\ IsComplete(s)
        /\ s.ChunkSize = frameSize
        /\ s.nrReceived = Len(images)
        /\ Data(s) = Data(AbsorbInOrder(Len(images)))

C2_Witness ==
    /\ OnlyOwnAllSupplied
    /\ Len(images) = MaxFull + 1
    /\ supplied[1] = Len(images) - 1
    /\ supplied[Len(supplied)] = 1
    /\ IsComplete(s)

----------------------------------------------------------------------------
(* C3: idempotence *)

\* the frame bytes b hit a slot of q that is already filled
HitsFilledSlot(q, b) ==
    /\ Decodes(b)
    /\ ~IsEmpty(q)
    /\ Decoded(b).nr < Len(q.chunks)
    /\ q.chunks[Decoded(b).nr + 1] # NoChunk

\* C3: an absorb call with a frame whose slot is already filled, or on a
\* Complete sequence, changes neither Progress() nor Data(), does not count the
\* frame again and leaves the slot with its first payload.
C3_Idempotence ==
    [][(call'.op \in AbsorbOps /\ (HitsFilledSlot(s, call'.arg) \/ IsComplete(s))) =>
          /\ Progress(s') = Progress(s)
          /\ Data(s') = Data(s)
          /\ s'.nrReceived = s.nrReceived
          /\ s'.chunks = s.chunks]_vars

\* a frame with a filled index but another payload was given to a Partial
\* sequence, and the slot still holds the first payload
C3_Witness ==
    /\ call.op \in AbsorbOps
    /\ IsPartial(s)
    /\ HitsFilledSlot(s, call.arg)
    /\ s.chunks[Decoded(call.arg).nr + 1].data # Decoded(call.arg).data
    /\ s.nrReceived = 1

----------------------------------------------------------------------------
(* C4: progress *)

ProgressFacts(q) ==
    /\ IsEmpty(q) => IsZero(Progress(q))
    /\ IsOne(Progress(q)) <=> IsComplete(q)
    /\ FracLE(<<0, 1>>, Progress(q))

\* C4: Progress() never decreases across a call, is 0 while the sequence is
\* Empty and is 1 exactly when IsComplete() is true.
C4_ProgressMonotone ==
    [][/\ FracLE(Progress(s), Progress(s'))
       /\ ProgressFacts(s)
       /\ ProgressFacts(s')]_vars

C4_Witness ==
    /\ call.op \in AbsorbOps
    /\ ~alien
    /\ s.nrReceived = MaxFull
    /\ Len(s.chunks) = MaxFull + 1
    /\ Progress(s) = <<MaxFull, MaxFull + 1>>

----------------------------------------------------------------------------
(* C5: Complete is terminal *)

\* C5: from a Complete sequence every call leaves ChunkSize, the slots and
\* nrReceived as they are, IsComplete() stays true, and an absorb call with any
\* input returns normally.
C5_CompleteTerminal ==
    [][IsComplete(s) =>
          /\ s' = s
          /\ IsComplete(s')
          /\ (call'.op \in AbsorbOps \cup {"DecodeUnreadable"} => call'.out = "ok")]_vars

\* the frame with index 5 of 2 panics on every sequence that is not Complete;
\* here it was given to a Complete sequence of the producer's frames and returned
C5_Witness ==
    /\ call.op \in AbsorbOps
    /\ call.arg = <<5, 2, 32, 0, 204>>
    /\ call.out = "ok"
    /\ IsComplete(s)
    /\ s = New(data, frameSize)
    /\ Len(s.chunks) >= 2

----------------------------------------------------------------------------
(* C6: header conflict *)

\* the frame bytes b declare another chunk size or total than q has fixed
HeaderConflict(q, b) ==
    /\ Decodes(b)
    /\ ~IsEmpty(q)
    /\ (Decoded(b).cs # q.ChunkSize \/ Decoded(b).tot # Len(q.chunks))

\* C6: a frame whose header conflicts with the chunk size and total a Partial
\* sequence has fixed is not absorbed (slots and nrReceived unchanged) and the
\* call reports an error.
C6_HeaderConflictRejected ==
    [][(call'.op \in AbsorbOps /\ IsPartial(s) /\ HeaderConflict(s, call'.arg)) =>
          /\ s'.chunks = s.chunks
          /\ s'.nrReceived = s.nrReceived
          /\ call'.out = "error"]_vars

----------------------------------------------------------------------------
(* C7: total == 0 *)

\* C7: absorbing a frame whose header declares total 0 into an Empty sequence
\* leaves the sequence Empty and never makes IsComplete() true.
C7_ZeroTotalRejected ==
    [][(call'.op \in AbsorbOps /\ IsEmpty(s) /\ Decodes(call'.arg)
            /\ Decoded(call'.arg).tot = 0) =>
          /\ ~IsComplete(s')
          /\ IsEmpty(s')]_vars

----------------------------------------------------------------------------
(* C8: oversized input *)

\* C8: New / CreateChunks reports an error for a buffer that needs more than
\* 255 chunks, and every chunk it returns carries the real chunk count in tot
\* and its real position in nr.
C8_OversizedRejected ==
    call.op = "New" =>
        /\ NumChunks(data, frameSize) > MaxUint8 => call.out = "error"
        /\ call.out = "ok" =>
              \A k \in 1..Len(s.chunks) :
                  /\ s.chunks[k].nr = k - 1
                  /\ s.chunks[k].tot = NumChunks(data, frameSize)

----------------------------------------------------------------------------
(* C9: concurrent duplicate absorption *)

FilledSlots(q) == {k \in 1..Len(q.chunks) : q.chunks[k] # NoChunk}

\* every thread was given image k and has returned
AllDoneWith(k) == \A t \in Threads : thr[t].pc = "done" /\ thr[t].img = k

\* C9: when all capture threads absorb the same frame concurrently, the
\* sequence ends as if the frame had been absorbed once, and nrReceived never
\* exceeds the number of filled slots.
C9_ConcurrentDuplicateOnce ==
    /\ \A k \in 1..Len(images) :
          AllDoneWith(k) => s = DecodeImageRes(NewEmpty, Image(images[k], <<>>)).s
    /\ s.nrReceived <= Cardinality(FilledSlots(s))

----------------------------------------------------------------------------
(* C10: reads of an incomplete sequence *)

\* C10: while IsComplete() is false, Data() returns nil and QRCodes() returns an
\* error, and neither call changes the sequence.
C10_IncompleteReadsFail ==
    [][/\ (call'.op = "Data" /\ ~IsComplete(s)) => (call'.ret = NilSlice /\ s' = s)
       /\ (call'.op = "QRCodes" /\ ~IsComplete(s)) => (call'.out = "error" /\ s' = s)
       /\ (call'.op \in {"Data", "QRCodes"}) => s' = s]_vars

C10_Witness ==
    /\ call.op = "Data"
    /\ call.ret = NilSlice
    /\ IsPartial(s)
    /\ s.nrReceived >= 1

----------------------------------------------------------------------------
(* C11: invalid frame size *)

\* NewChunk gets as far as the chunk size field (index and total are within
\* the length, the field within the capacity) and reads none of the six sizes
\* of the enumeration
InvalidSizeField(b, spare) ==
    /\ Len(b) >= 2
    /\ Len(b) + Len(spare) >= 4
    /\ (b \o spare)[3] + 256 * (b \o spare)[4]
           \notin {ChunkSizes[i] : i \in 1..Len(ChunkSizes)}

\* C11: frame bytes whose frameSize field is outside {32,64,128,256,512,1024}
\* are not absorbed: AddChunkFromBytes and DecodeImage leave ChunkSize, the
\* slots and nrReceived unchanged, in every state.
C11_InvalidSizeNotAbsorbed ==
    [][(call'.op \in AbsorbOps /\ InvalidSizeField(call'.arg, call'.spare)) => s' = s]_vars

\* the frame with size field 100 was given to a Partial sequence
C11_Witness ==
    /\ call.op \in AbsorbOps
    /\ call.arg = <<0, 1, 100, 0, 203>>
    /\ IsPartial(s)
    /\ s.nrReceived >= 1

----------------------------------------------------------------------------
(* C12: reporting of rejections *)

\* an absorb call that returned normally, without an error, and changed nothing
SilentNoOp == call'.op \in AbsorbOps /\ call'.out = "ok" /\ s' = s

\* C12: every rejection is reported to the caller as an error: the only
\* absorb calls that return without an error and
\* without changing the state are those on a Complete sequence and those with
\* a duplicate index.
C12_OnlyIdempotentSilent ==
    [][SilentNoOp => (IsComplete(s) \/ HitsFilledSlot(s, call'.arg))]_vars

----------------------------------------------------------------------------
(* C13: fewer than 4 bytes *)

\* C13: decoding frame bytes of length 0 to 3 (on a sequence that is not
\* Complete, where the bytes are decoded) returns an error value, does not
\* abort and yields no frame.
C13_ShortHeaderIsError ==
    [][(call'.op \in AbsorbOps /\ ~IsComplete(s) /\ Len(call'.arg) < 4) =>
          (call'.out = "error" /\ s' = s)]_vars

----------------------------------------------------------------------------
(* C17: counting *)

\* C17: while only frames of one n-chunk split are absorbed (any order, any
\* duplicates), nrReceived is the number of filled slots and of distinct
\* indices absorbed, is at most n, Progress() is nrReceived / n, and the
\* sequence is Complete exactly when the n-th distinct index has been absorbed.
C17_Counting ==
    (~alien /\ Len(images) >= 1) =>
        /\ s.nrReceived = Cardinality(FilledSlots(s))
        /\ s.nrReceived = Len(supplied)
        /\ FilledSlots(s) = {supplied[j] + 1 : j \in 1..Len(supplied)}
        /\ s.nrReceived <= Len(images)
        /\ Len(supplied) >= 1 => Len(s.chunks) = Len(images)
        /\ Progress(s)[1] * Len(images) = s.nrReceived * Progress(s)[2]
        /\ IsComplete(s) <=> Len(supplied) = Len(images)

\* two of three frames absorbed, the later ones first, and the last call was a duplicate
C17_Witness ==
    /\ ~alien
    /\ Len(images) = MaxFull + 1
    /\ supplied = <<MaxFull, MaxFull - 1>>
    /\ call.op \in AbsorbOps
    /\ call.arg = images[MaxFull + 1]
    /\ s.nrReceived = 2
    /\ Progress(s) = <<2, MaxFull + 1>>

----------------------------------------------------------------------------
(* C19: metadata fixed by the first frame *)

\* C19: the first frame given to an Empty sequence fixes ChunkSize to its
\* frameSize and the number of slots to its total, and no later absorb call
\* changes either.
C19_MetadataFixed ==
    [][/\ (call'.op \in AbsorbOps /\ IsEmpty(s) /\ Decodes(call'.arg)) =>
             (s'.ChunkSize = Decoded(call'.arg).cs
                 /\ Len(s'.chunks) = Decoded(call'.arg).tot)
       /\ ~IsEmpty(s) =>
             (s'.ChunkSize = s.ChunkSize /\ Len(s'.chunks) = Len(s.chunks))]_vars

\* a frame declaring 5 chunks was absorbed by a sequence fixed at fewer slots
C19_Witness ==
    /\ call.op \in AbsorbOps
    /\ call.arg = <<1, 5, 32, 0, 201>>
    /\ Len(images) = MaxFull + 1
    /\ Len(s.chunks) = MaxFull + 1
    /\ s.ChunkSize = frameSize
    /\ s.chunks[1] = Decoded(images[1])
    /\ s.chunks[2] = Decoded(call.arg)

----------------------------------------------------------------------------
(* C20: no absorb call is fatal *)

\* C20: absorbing a frame with a well-formed header (4 bytes or more, valid
\* frameSize, total >= 1) and any index returns normally in every state; an
\* index at or beyond the sequence's total fills no slot.
C20_NoAbsorbPanics ==
    [][(call'.op \in AbsorbOps /\ Decodes(call'.arg) /\ Decoded(call'.arg).tot >= 1) =>
          /\ call'.out # "panic"
          /\ Decoded(call'.arg).nr >= Len(s'.chunks) => s'.chunks = s.chunks]_vars

----------------------------------------------------------------------------
(* C14, C15, C16: the producer *)

\* New has been called
PreFilled == s.ChunkSize # ChunkSizeUnknown

\* number of frames and frame capacity, computed from the lengths alone
Cap == frameSize - 4
CeilFrames == (Len(data) + Cap - 1) \div Cap

\* Complete, Progress() 1, ceil(len(data) / (frameSize - 4)) frames
PreFilledShape ==
    /\ IsComplete(s)
    /\ Progress(s) = <<1, 1>>
    /\ Len(s.chunks) = CeilFrames
    /\ s.ChunkSize = frameSize

\* C14 as stated: for every data buffer and frameSize, New(data, frameSize)
\* is Complete with Progress() 1, holds ceil(len(data)/(frameSize-4)) frames,
\* and Data() returns data.
C14_PreFilledAnyBuffer ==
    PreFilled =>
        /\ PreFilledShape
        /\ call.op = "Data" => call.ret = Slice(data)

\* C14 amended: the same for every non-empty buffer; for the empty buffer the
\* sequence is Complete with zero frames and Data() returns nil.
C14_PreFilled ==
    PreFilled =>
        /\ PreFilledShape
        /\ call.op = "Data" =>
              call.ret = IF Len(data) > 0 THEN Slice(data) ELSE NilSlice

\* Data() of a pre-filled sequence of more than 255 frames returned the buffer
C14_Witness ==
    /\ PreFilled
    /\ call.op = "Data"
    /\ Len(s.chunks) > MaxUint8
    /\ Len(data) % Cap # 0
    /\ call.ret = Slice(data)

\* C15: for data needing at most 255 frames, frame i of CreateChunks has
\* index i, the common total and frameSize, and payload
\* data[i*cap : min((i+1)*cap, len(data))]; when len(data) is not a multiple
\* of cap exactly the last frame is shorter than cap.
C15_SplitShape ==
    (PreFilled /\ CeilFrames <= MaxUint8) =>
        /\ Len(s.chunks) = CeilFrames
        /\ \A k \in 1..Len(s.chunks) :
              LET i == k - 1
                  lo == i * Cap
                  hi == IF (i + 1) * Cap < Len(data) THEN (i + 1) * Cap ELSE Len(data)
                  c == s.chunks[k]
              IN  /\ c.nr = i
                  /\ c.tot = CeilFrames
                  /\ c.cs = frameSize
                  /\ c.data = [j \in 1..(hi - lo) |-> data[lo + j]]
                  /\ Len(c.data) >= 1
                  /\ Len(c.data) < Cap <=> (k = Len(s.chunks) /\ Len(data) % Cap # 0)

\* a split into exactly 255 frames whose last frame holds one byte
C15_Witness ==
    /\ PreFilled
    /\ Len(s.chunks) = MaxUint8
    /\ s.chunks[MaxUint8].nr = MaxUint8 - 1
    /\ s.chunks[MaxUint8].tot = MaxUint8
    /\ Len(s.chunks[MaxUint8].data) = 1
    /\ Len(s.chunks[1].data) = Cap

\* C16: for every frame with a valid frameSize and a payload of at most
\* frameSize - 4 bytes, the bytes QRCode writes (index, total, little-endian
\* frameSize, payload) decode with NewChunk to the same index, total,
\* frameSize and payload.
C16_CarrierRoundTrip ==
    call.op = "Carry" =>
        /\ call.out = "ok"
        /\ \E F \in CarrierFrames \cup {New(data, frameSize).chunks[k] : k \in 1..Len(New(data, frameSize).chunks)} :
              call.arg = QRCode(F)
        /\ \A F \in CarrierFrames \cup {New(data, frameSize).chunks[k] : k \in 1..Len(New(data, frameSize).chunks)} :
              call.arg = QRCode(F) =>
                  /\ Len(F.data) <= F.cs - 4
                  /\ NewChunk(call.arg, call.spare) = [status |-> "ok", chunk |-> F]
                  /\ call.ret = Slice(F.data)

\* a full frame of size 1024 with index 255 and total 0 was carried and decoded
C16_Witness ==
    /\ call.op = "Carry"
    /\ call.arg = QRCode(QRChunk(MaxUint8, 0, ChunkSize1024, Buffer(ChunkSize1024 - 4)))
    /\ call.out = "ok"
    /\ Len(call.ret.b) = ChunkSize1024 - 4

----------------------------------------------------------------------------
(* C18: eventual completion *)

\* C18: from NewEmpty, when the frames of one complete n-frame set (n >= 1)
\* are supplied in any order with any duplicates and every frame is
\* eventually supplied, the sequence eventually is Complete and stays Complete.
C18_EventualCompletion ==
    (Len(images) >= 1) => <>[]IsComplete(s)

\* the loop ended after three frames, captured out of index order, and the
\* data read back is the producer's
C18_Witness ==
    /\ Len(images) = MaxFull + 1
    /\ IsComplete(s)
    /\ supplied = <<MaxFull, 0, 1>>
    /\ call.op = "Data"
    /\ call.ret = Slice(data)

====
